---- MODULE Spec2Model ----
(***************************************************************************)
(* SenseSational (src/sensational.py): a Sense HAT data logger driven by   *)
(* the joystick.  The model follows main() statement by statement.  The    *)
(* file mixes tabs and spaces; blocks are read with the 4-column tab stops *)
(* the file is laid out with (the `elif ... "down" ... "held"` of line 225 *)
(* pairs with the `if event.action == "pressed"` of line 187), and the     *)
(* empty `else:` of line 248 is read as `pass`.                            *)
(*                                                                         *)
(* Name resolution is modelled as Python does it: a name that is neither a *)
(* local of the function nor bound at module level raises NameError at the *)
(* moment it is evaluated.                                                 *)
(***************************************************************************)
EXTENDS Integers, Sequences, FiniteSets, TLC

\* ------------------------------------------------------------------ bounds

\* Joystick events the environment produces in one run.
MaxEvents == 3
\* time.localtime() answers one of the seconds 0..MaxTime.
MaxTime == 1
\* A sensor call answers one of the readings 0..MaxReading.
MaxReading == 1

\* ------------------------------------------------------------ vocabulary

Directions == {"up", "down", "left", "right", "middle"}
Actions == {"pressed", "held", "released"}
\* sense_hat's InputEvent, as main() reads it: .direction and .action
InputEvent == [direction : Directions, action : Actions]

Ev(d, a) == [direction |-> d, action |-> a]

Times == 0 .. MaxTime
Readings == 0 .. MaxReading

\* The names bound in the module's global namespace when main() runs:
\* the imports (26-29), the assignments (32-93, 177) and the defs.
GlobalNames ==
    { "SenseHat", "ACTION_PRESSED", "ACTION_HELD", "ACTION_RELEASED",
      "datetime", "Logger", "FileHandler",
      "sys", "os", "time", "socket", "struct", "fcntl",
      "sense", "log", "logHandler",
      "filenamePrefix", "outputDirectory", "batch_data", "outputFD",
      "currentFileName",
      "R", "W", "B", "G", "Y",
      "recording", "logged", "ready", "areYouSure",
      "fileSetup", "logData", "getSenseData", "getIPAddress", "main" }

\* Evaluating a global name: bound, or NameError.
Bound(name) == name \in GlobalNames

\* The absent value of a local that has not been assigned (main's outputFD
\* and currentFileName are locals: main assigns them and has no `global`).
Unbound == [unbound |-> TRUE]

\* ------------------------------------------------------------- the files

\* A directory: a function from the file names in it to the file's rows.
EmptyDir == [n \in {} |-> <<>>]

\* open(name, "w"): the file exists afterwards, and is empty.
Create(dir, name) ==
    [n \in (DOMAIN dir) \cup {name} |-> IF n = name THEN <<>> ELSE dir[n]]

\* fd.write(row + "\n")
AppendRow(dir, name, row) ==
    [n \in DOMAIN dir |-> IF n = name THEN Append(dir[n], row) ELSE dir[n]]

Remove(dir, name) == [n \in (DOMAIN dir) \ {name} |-> dir[n]]

Put(dir, name, rows) ==
    [n \in (DOMAIN dir) \cup {name} |-> IF n = name THEN rows ELSE dir[n]]

\* The 14 column names of fileSetup's header.
header ==
    << "temp_h", "temp_p", "humidity", "pressure", "pitch", "roll", "yaw",
       "mag_x", "mag_y", "mag_z", "gyro_x", "gyro_y", "gyro_z", "timestamp" >>

\* ", ".join(repr(value) for value in header): one field per column name,
\* each the name in quotes.
HeaderRow == [i \in 1 .. Len(header) |-> [quoted |-> TRUE, text |-> header[i]]]


\* The value a bound global denotes (38-39, 96-97); any other bound name
\* denotes an opaque value of its own.
GlobalValue(name) ==
    CASE name = "filenamePrefix" -> "SenseLog"
      [] name = "outputDirectory" -> "Finished"
      [] OTHER -> name

\* "{}-{}.csv".format(prefix, time.strftime('%Y%m%d_%H%M%S', ...)): the
\* name is decided by the prefix and the second.
FileName(prefix, t) == [prefix |-> prefix, stamp |-> t]

\* An open file object, as returned by open().
Handle(name) == [name |-> name, closed |-> FALSE]

\* -------------------------------------------------------- the functions

\* fileSetup(outputFileName), lines 117-125, in directory dir.  openOk is
\* whether open() succeeds.  line 120 creates the file; line 121 evaluates
\* the global `record`; line 122 writes the header; line 125 returns the
\* file object.
fileSetup(dir, outputFileName, openOk) ==
    IF ~openOk
    THEN [raised |-> "OSError", dir |-> dir, fd |-> Unbound]
    ELSE IF ~Bound("record")
    THEN [raised |-> "NameError", dir |-> Create(dir, outputFileName), fd |-> Unbound]
    ELSE [raised |-> "none",
          dir |-> AppendRow(Create(dir, outputFileName), outputFileName, HeaderRow),
          fd |-> Handle(outputFileName)]

\* The eight Sense HAT calls getSenseData makes, in the order it makes them.
SensorCalls ==
    { "get_temperature_from_humidity", "get_temperature_from_pressure",
      "get_humidity", "get_pressure", "get_orientation", "get_compass_raw",
      "get_accelerometer_raw", "get_gyroscope_raw" }

\* One value of the record: which quantity it is and what was read.
Field(quantity, value) == [quantity |-> quantity, value |-> value]

\* getSenseData(), lines 133-161.  r gives what each Sense HAT call reads,
\* now is datetime.datetime.now(), sensorOk is whether the reads succeed.
\* The list is built in the order of lines 137-159; mag[x] on line 148 is
\* the first evaluation of the global `x`.
getSenseData(r, now, sensorOk) ==
    IF ~sensorOk
    THEN [raised |-> "OSError", value |-> <<>>]
    ELSE IF ~(Bound("x") /\ Bound("y") /\ Bound("z"))
    THEN [raised |-> "NameError", value |-> <<>>]
    ELSE [raised |-> "none",
          value |->
            << Field("temp_h", r["get_temperature_from_humidity"]),
               Field("temp_p", r["get_temperature_from_pressure"]),
               Field("humidity", r["get_humidity"]),
               Field("pressure", r["get_pressure"]),
               Field("pitch", r["get_orientation"]),
               Field("roll", r["get_orientation"]),
               Field("yaw", r["get_orientation"]),
               Field("mag_x", r["get_compass_raw"]),
               Field("mag_y", r["get_compass_raw"]),
               Field("mag_z", r["get_compass_raw"]),
               Field("acc_x", r["get_accelerometer_raw"]),
               Field("acc_y", r["get_accelerometer_raw"]),
               Field("acc_z", r["get_accelerometer_raw"]),
               Field("gyro_x", r["get_gyroscope_raw"]),
               Field("gyro_y", r["get_gyroscope_raw"]),
               Field("gyro_z", r["get_gyroscope_raw"]),
               Field("timestamp", now) >>]

\* ", ".join([str(value) for value in sensedData]): one field per value,
\* in the list's order, unquoted.
DataRow(sensedData) ==
    [i \in 1 .. Len(sensedData) |-> [quoted |-> FALSE, text |-> sensedData[i]]]

\* logData(fd, sensedData), lines 128-130, on the file fd names in dir.
\* writeOk is whether fd.write succeeds (it raises on a closed file).
logData(dir, fd, sensedData, writeOk) ==
    IF fd = Unbound \/ ~writeOk \/ fd.closed
    THEN [raised |-> IF fd = Unbound THEN "UnboundLocalError" ELSE "OSError", dir |-> dir]
    ELSE [raised |-> "none", dir |-> AppendRow(dir, fd.name, DataRow(sensedData))]

\* What the SIOCGIFADDR ioctl of line 175 answers.
IoctlResults == {"address", "ENODEV", "EADDRNOTAVAIL"}

\* getIPAddress(ifname), lines 164-175: the address, or the ioctl's OSError.
getIPAddress(ifname, ioctl) ==
    IF ioctl = "address"
    THEN [raised |-> "none", value |-> "address"]
    ELSE [raised |-> "OSError", value |-> ioctl]

\* ------------------------------------------------------------- the state

VARIABLES
    pc,               \* where main() is: "poll" (184), "dispatch" (186),
                      \* "confirm" (229), "tick" (253), "done", "halted";
                      \* "startup" before line 99, "exited" after sys.exit;
                      \* "call" and "returned" when a function is called
                      \* on its own
    recordingState,   \* main's local recordingState (180)
    outputFD,         \* main's local outputFD (192)
    currentFileName,  \* main's local currentFileName (191)
    events,           \* what is left of sense.stick.get_events() (186)
    stick,            \* the joystick's device queue
    arrived,          \* how many joystick events have arrived
    low_light,        \* sense.low_light (33)
    display,          \* what the LED matrix was last told to show
    cwd,              \* the files of the working directory
    finished,         \* the files of outputDirectory
    shutdownInvoked,  \* os.system("sudo shutdown -h now") has been run (240)
    fault,            \* the exception that ended main(), or "none"
    last,             \* the last step main() took: which, recordingState
                      \* before it, its event, what the system answered,
                      \* whether a display call of the step failed
    returned,         \* what a function called on its own returned
    outdir,           \* what the path outputDirectory is: "absent",
                      \* "directory" or "file" (100, 107)
    exitStatus        \* the status the process ended with, once it has

vars ==
    << pc, recordingState, outputFD, currentFileName, events, stick, arrived,
       low_light, display, cwd, finished, shutdownInvoked, fault, last,
       returned, outdir, exitStatus >>

\* The locals and files a handler of main() can change.
Session ==
    [recordingState |-> recordingState, outputFD |-> outputFD,
     currentFileName |-> currentFileName, cwd |-> cwd, finished |-> finished]

\* The state when the script is started: nothing of the module body below
\* line 95 has run; the path outputDirectory is absent, a directory, or
\* something that is not a directory.
Init ==
    /\ pc = "startup"
    /\ recordingState = FALSE
    /\ outputFD = Unbound
    /\ currentFileName = Unbound
    /\ events = << >>
    /\ stick = << >>
    /\ arrived = 0
    /\ low_light = TRUE
    /\ display = "clear"
    /\ cwd = EmptyDir
    /\ finished = EmptyDir
    /\ shutdownInvoked = FALSE
    /\ fault = "none"
    /\ last = [op |-> "start", rec |-> FALSE,
               event |-> [direction |-> "none", action |-> "none"],
               io |-> "none", failed |-> FALSE]
    /\ returned = [fn |-> "none"]
    /\ outdir \in {"absent", "directory", "file"}
    /\ exitStatus = 0

\* ------------------------------------------------- the handlers' outcomes

\* What a handler leaves behind: the exception it raised ("none" when it
\* ran to its end), the session and the display; failed says whether a
\* call to the display failed.
Outcome(raised, s, shown) ==
    [raised |-> raised, s |-> s, display |-> shown, failed |-> FALSE]

\* A call to the display (set_pixels, show_message, load_image, clear)
\* fails: it raises, and the display keeps what it showed.
DisplayFault(s, shown) ==
    [raised |-> "OSError", s |-> s, display |-> shown, failed |-> TRUE]

\* The directory check without the elif of lines 107-109.
StartupCheckNoElif(kind, makedirsOk) ==
    IF kind = "absent"
    THEN IF makedirsOk
         THEN [outdir |-> "directory", exits |-> FALSE]
         ELSE [outdir |-> "absent", exits |-> TRUE]
    ELSE [outdir |-> kind, exits |-> FALSE]

\* Lines 99-109: outputDirectory is created when the path is absent;
\* sys.exit(-1) when that fails or when the path is not a directory.
StartupCheck(kind, makedirsOk) ==
    IF kind = "absent"
    THEN IF makedirsOk
         THEN [outdir |-> "directory", exits |-> FALSE]
         ELSE [outdir |-> "absent", exits |-> TRUE]
    ELSE IF kind # "directory"
    THEN [outdir |-> kind, exits |-> TRUE]
    ELSE [outdir |-> kind, exits |-> FALSE]

\* outputFD.close() then os.rename(currentFileName, os.path.join(
\* outputDirectory, currentFileName)), lines 199-200 and 233-234, on the
\* session s.  closeOk and renameOk are whether the two calls succeed.
CloseAndMove(s, closeOk, renameOk) ==
    IF s.outputFD = Unbound
    THEN [raised |-> "UnboundLocalError", s |-> s]
    ELSE IF ~closeOk
    THEN [raised |-> "OSError", s |-> s]
    ELSE LET closed == [s EXCEPT !.outputFD = [s.outputFD EXCEPT !.closed = TRUE]]
         IN  IF ~renameOk \/ s.currentFileName \notin DOMAIN s.cwd
             THEN [raised |-> "OSError", s |-> closed]
             ELSE [raised |-> "none",
                   s |-> [closed EXCEPT
                            !.cwd = Remove(s.cwd, s.currentFileName),
                            !.finished = Put(s.finished, s.currentFileName,
                                             s.cwd[s.currentFileName])]]

\* LEFT pressed, lines 189-195.  t is what time.localtime() answers.
LeftPressed(s, shown, t, openOk, displayOk) ==
    IF s.recordingState
    THEN Outcome("none", s, shown)
    ELSE IF ~Bound("prefix")
    THEN Outcome("NameError", s, shown)
    ELSE LET name == FileName(GlobalValue("prefix"), t)
             f == fileSetup(s.cwd, name, openOk)
             opened == [s EXCEPT !.currentFileName = name, !.cwd = f.dir,
                                 !.outputFD = f.fd]
         IN  IF f.raised # "none"
             THEN Outcome(f.raised,
                          [s EXCEPT !.currentFileName = name, !.cwd = f.dir],
                          shown)
             ELSE IF ~displayOk
             THEN DisplayFault(opened, shown)
             ELSE Outcome("none", [opened EXCEPT !.recordingState = TRUE],
                          "recording")

\* RightPressed with line 205 assigning True.
RightPressedSetsTrue(s, shown, closeOk, renameOk, displayOk) ==
    IF s.recordingState
    THEN LET c == CloseAndMove(s, closeOk, renameOk)
         IN  IF c.raised # "none"
             THEN Outcome(c.raised, c.s, shown)
             ELSE IF ~displayOk
             THEN DisplayFault(c.s, shown)
             ELSE Outcome("none", [c.s EXCEPT !.recordingState = TRUE], "ready")
    ELSE Outcome("none", [s EXCEPT !.recordingState = TRUE], shown)

\* RightPressed without the `if recordingState:` of line 198.
RightPressedUnguarded(s, shown, closeOk, renameOk, displayOk) ==
    LET c == CloseAndMove(s, closeOk, renameOk)
    IN  IF c.raised # "none"
        THEN Outcome(c.raised, c.s, shown)
        ELSE Outcome("none", [c.s EXCEPT !.recordingState = FALSE], "ready")

\* RIGHT pressed, lines 197-205.
RightPressed(s, shown, closeOk, renameOk, displayOk) ==
    IF s.recordingState
    THEN LET c == CloseAndMove(s, closeOk, renameOk)
         IN  IF c.raised # "none"
             THEN Outcome(c.raised, c.s, shown)
             ELSE IF ~displayOk
             THEN DisplayFault(c.s, shown)
             ELSE Outcome("none", [c.s EXCEPT !.recordingState = FALSE], "ready")
    ELSE Outcome("none", [s EXCEPT !.recordingState = FALSE], shown)

\* MiddlePressed without the try/except of lines 208 and 211.
MiddlePressedUncaught(s, shown, ioctl, messageOk, fallbackOk) ==
    LET a == getIPAddress("wlan0", ioctl)
    IN  IF a.raised # "none"
        THEN Outcome(a.raised, s, shown)
        ELSE IF ~messageOk
        THEN DisplayFault(s, shown)
        ELSE Outcome("none", s, "IP: address")

\* MIDDLE pressed, lines 207-213: `except OSError` catches what
\* getIPAddress or the show_message of line 210 raises and shows the
\* fallback message.  messageOk and fallbackOk are whether the
\* show_message of line 210 and that of line 213 succeed.
MiddlePressed(s, shown, ioctl, messageOk, fallbackOk) ==
    LET a == getIPAddress("wlan0", ioctl)
        tried == IF a.raised # "none" THEN a.raised
                 ELSE IF ~messageOk THEN "OSError"
                 ELSE "none"
    IN  IF tried = "none"
        THEN Outcome("none", s, "IP: address")
        ELSE IF tried = "OSError"
        THEN IF fallbackOk
             THEN [Outcome("none", s, "IP: none or error")
                     EXCEPT !.failed = (a.raised = "none")]
             ELSE DisplayFault(s, shown)
        ELSE Outcome(tried, s, shown)

\* Both branches of lines 218-223 leave low_light false.
ToggleStuck(lowLight) == FALSE

\* The low_light that lines 218-223 leave.
Toggle(lowLight) == IF lowLight THEN FALSE ELSE TRUE

\* UP pressed, lines 215-217: the reference image is loaded first.
UpPressed(s, shown, displayOk) ==
    IF ~displayOk
    THEN DisplayFault(s, shown)
    ELSE Outcome("none", s, "space_invader.png")

\* DOWN held, lines 225-228.
DownHeld(s, shown, displayOk) ==
    IF ~displayOk
    THEN DisplayFault(s, shown)
    ELSE Outcome("none", s, "areYouSure")

\* Confirms without the test of the direction.
ConfirmsAnyDirection(userInput) ==
    userInput.action \in {"pressed", "held"}

\* The follow-up event confirms the shutdown, line 230.
Confirms(userInput) ==
    userInput.direction = "up" /\ userInput.action \in {"pressed", "held"}

\* The follow-up event aborts the shutdown, line 241.
Aborts(userInput) ==
    userInput.direction = "down" /\ userInput.action = "pressed"

\* FollowUp with line 241 an `else:` of line 230.
FollowUpElseAbort(s, shown, userInput, closeOk, renameOk, displayOk) ==
    LET none == [raised |-> "none", s |-> s, display |-> shown,
                 failed |-> FALSE, shutdown |-> FALSE, break |-> FALSE]
    IN  IF ~displayOk
        THEN [none EXCEPT !.raised = "OSError", !.failed = TRUE]
        ELSE IF Confirms(userInput)
        THEN [none EXCEPT !.display = "SHUTDOWN", !.shutdown = TRUE]
        ELSE [none EXCEPT !.display = "clear", !.break = TRUE]

\* The follow-up event of the confirmation, lines 230-246.  The outcome
\* also says whether os.system was run and whether `break` left the loop
\* over the events.  displayOk is whether the display calls succeed.
FollowUp(s, shown, userInput, closeOk, renameOk, displayOk) ==
    LET none == [raised |-> "none", s |-> s, display |-> shown,
                 failed |-> FALSE, shutdown |-> FALSE, break |-> FALSE]
        faulted == [none EXCEPT !.raised = "OSError", !.failed = TRUE]
        confirmed ==
            IF ~Confirms(userInput)
            THEN none
            ELSE IF ~displayOk
            THEN faulted
            ELSE IF ~s.recordingState
            THEN [none EXCEPT !.display = "SHUTDOWN", !.shutdown = TRUE]
            ELSE LET c == CloseAndMove(s, closeOk, renameOk)
                 IN  IF c.raised # "none"
                     THEN [none EXCEPT !.raised = c.raised, !.s = c.s,
                                       !.display = "SHUTDOWN"]
                     ELSE [none EXCEPT
                             !.s = [c.s EXCEPT !.recordingState = FALSE],
                             !.display = "logged", !.shutdown = TRUE]
    IN  IF confirmed.raised = "none" /\ Aborts(userInput)
        THEN IF ~displayOk
             THEN faulted
             ELSE [confirmed EXCEPT !.display = "clear", !.break = TRUE]
        ELSE confirmed

\* Sample without the `if recordingState:` of line 253.
SampleUnguarded(s, shown, r, now, sensorOk, writeOk) ==
    LET d == getSenseData(r, now, sensorOk)
    IN  IF d.raised # "none"
        THEN Outcome(d.raised, s, shown)
        ELSE LET w == logData(s.cwd, s.outputFD, d.value, writeOk)
             IN  Outcome(w.raised, [s EXCEPT !.cwd = w.dir], shown)

\* The sampling of lines 253-255.
Sample(s, shown, r, now, sensorOk, writeOk) ==
    IF ~s.recordingState
    THEN Outcome("none", s, shown)
    ELSE LET d == getSenseData(r, now, sensorOk)
         IN  IF d.raised # "none"
             THEN Outcome(d.raised, s, shown)
             ELSE LET w == logData(s.cwd, s.outputFD, d.value, writeOk)
                  IN  Outcome(w.raised, [s EXCEPT !.cwd = w.dir], shown)

\* What one sampling reads from the sensors, the clock and the file
\* system: with recordingState false line 255 is not run and nothing is
\* read.
SampleInputs(rec) ==
    IF rec
    THEN [r : [SensorCalls -> Readings], now : Times,
          sensorOk : BOOLEAN, writeOk : BOOLEAN]
    ELSE {[r |-> [c \in SensorCalls |-> 0], now |-> 0,
           sensorOk |-> TRUE, writeOk |-> TRUE]}

\* ------------------------------------------------------------ the actions

NoEvent == [direction |-> "none", action |-> "none"]

\* The step just taken: which, the event it handled, what the system
\* answered, whether a display call failed.
Step(op, event, io, failed) ==
    last' = [op |-> op, rec |-> recordingState, event |-> event, io |-> io,
             failed |-> failed]

Did(op, event) == Step(op, event, "none", FALSE)

\* Apply without the `finally: sense.clear()` of lines 258-259.
ApplyNoFinally(o, next) ==
    /\ recordingState' = o.s.recordingState
    /\ outputFD' = o.s.outputFD
    /\ currentFileName' = o.s.currentFileName
    /\ cwd' = o.s.cwd
    /\ finished' = o.s.finished
    /\ IF o.raised # "none"
       THEN pc' = "done" /\ display' = o.display /\ fault' = o.raised
            /\ exitStatus' = 1
       ELSE pc' = next /\ display' = o.display /\ fault' = fault
            /\ exitStatus' = exitStatus

\* A handler's outcome takes effect.  An exception nobody catches leaves
\* main() through `finally: sense.clear()` (258-259), and the script ends
\* with the traceback and status 1.
Apply(o, next) ==
    /\ recordingState' = o.s.recordingState
    /\ outputFD' = o.s.outputFD
    /\ currentFileName' = o.s.currentFileName
    /\ cwd' = o.s.cwd
    /\ finished' = o.s.finished
    /\ IF o.raised # "none"
       THEN pc' = "done" /\ display' = "clear" /\ fault' = o.raised
            /\ exitStatus' = 1
       ELSE pc' = next /\ display' = o.display /\ fault' = fault
            /\ exitStatus' = exitStatus

\* The module body and the __main__ block up to the call of main(): the
\* directory check (99-109), then "Go!", the ready glyph and the clearing
\* of the display (269-272).  sys.exit(-1) ends the process with status
\* 255; an exception of a display call ends it with status 1.
Startup ==
    /\ pc = "startup"
    /\ \E makedirsOk \in BOOLEAN, displayOk \in BOOLEAN :
          LET c == StartupCheck(outdir, makedirsOk)
          IN  /\ outdir' = c.outdir
              /\ IF c.exits
                 THEN /\ pc' = "exited" /\ exitStatus' = (-1) % 256
                      /\ display' = display
                      /\ Step("startup", NoEvent, outdir, FALSE)
                 ELSE IF ~displayOk
                 THEN /\ pc' = "exited" /\ exitStatus' = 1
                      /\ display' = display
                      /\ Step("startup", NoEvent, outdir, TRUE)
                 ELSE /\ pc' = "poll" /\ exitStatus' = exitStatus
                      /\ display' = "clear"
                      /\ Step("startup", NoEvent, outdir, FALSE)
    /\ UNCHANGED << recordingState, outputFD, currentFileName, events, stick,
                    arrived, low_light, cwd, finished, shutdownInvoked,
                    fault, returned >>

\* The joystick is moved: the device queues one more event.  Events that
\* arrive once main() has ended are read by nobody.
Joystick ==
    /\ pc \in {"poll", "dispatch", "confirm", "tick"}
    /\ arrived < MaxEvents
    /\ \E e \in InputEvent : stick' = Append(stick, e)
    /\ arrived' = arrived + 1
    /\ UNCHANGED << pc, recordingState, outputFD, currentFileName, events,
                    low_light, display, cwd, finished, shutdownInvoked,
                    fault, last, returned, outdir, exitStatus >>

\* sense.stick._wait(2) and get_events(), lines 184-186: every queued event
\* is taken, in order; with none queued the wait times out.
Poll ==
    /\ pc = "poll"
    /\ IF stick = << >>
       THEN pc' = "tick" /\ events' = events
       ELSE pc' = "dispatch" /\ events' = stick
    /\ stick' = << >>
    /\ Did("poll", NoEvent)
    /\ UNCHANGED << recordingState, outputFD, currentFileName, arrived,
                    low_light, display, cwd, finished, shutdownInvoked,
                    fault, returned, outdir, exitStatus >>

\* The loop over the events is at event e.
At(e) == pc = "dispatch" /\ events # << >> /\ Head(events) = e

DispatchLeft ==
    /\ At(Ev("left", "pressed"))
    /\ events' = Tail(events)
    /\ \E t \in Times, openOk \in BOOLEAN, displayOk \in BOOLEAN :
          LET o == LeftPressed(Session, display, t, openOk, displayOk)
          IN  /\ Apply(o, "dispatch")
              /\ Step("left", Head(events), "none", o.failed)
    /\ UNCHANGED << stick, arrived, low_light, shutdownInvoked, returned,
                    outdir >>

DispatchRight ==
    /\ At(Ev("right", "pressed"))
    /\ events' = Tail(events)
    /\ \E closeOk \in BOOLEAN, renameOk \in BOOLEAN, displayOk \in BOOLEAN :
          LET o == RightPressed(Session, display, closeOk, renameOk, displayOk)
          IN  /\ Apply(o, "dispatch")
              /\ Step("right", Head(events), "none", o.failed)
    /\ UNCHANGED << stick, arrived, low_light, shutdownInvoked, returned,
                    outdir >>

DispatchMiddle ==
    /\ At(Ev("middle", "pressed"))
    /\ events' = Tail(events)
    /\ \E ioctl \in IoctlResults, messageOk \in BOOLEAN, fallbackOk \in BOOLEAN :
          LET o == MiddlePressed(Session, display, ioctl, messageOk, fallbackOk)
          IN  /\ Apply(o, "dispatch")
              /\ Step("middle", Head(events), ioctl, o.failed)
    /\ UNCHANGED << stick, arrived, low_light, shutdownInvoked, returned,
                    outdir >>

\* UP pressed, lines 215-223.
DispatchUp ==
    /\ At(Ev("up", "pressed"))
    /\ events' = Tail(events)
    /\ \E displayOk \in BOOLEAN :
          LET o == UpPressed(Session, display, displayOk)
          IN  /\ Apply(o, "dispatch")
              /\ low_light' = IF o.raised = "none" THEN Toggle(low_light)
                              ELSE low_light
              /\ Step("up", Head(events), "none", o.failed)
    /\ UNCHANGED << stick, arrived, shutdownInvoked, returned, outdir >>

\* DOWN held, lines 225-229: main() goes to wait for one more event.
DispatchDownHeld ==
    /\ At(Ev("down", "held"))
    /\ events' = Tail(events)
    /\ \E displayOk \in BOOLEAN :
          LET o == DownHeld(Session, display, displayOk)
          IN  /\ Apply(o, "confirm")
              /\ Step("down_held", Head(events), "none", o.failed)
    /\ UNCHANGED << stick, arrived, low_light, shutdownInvoked, returned,
                    outdir >>

\* The events no branch of lines 187-250 acts on: DOWN pressed, every
\* released event and every held event but DOWN held.
Unhandled(e) ==
    IF e.action = "pressed"
    THEN e.direction \notin {"left", "right", "middle", "up"}
    ELSE ~(e.direction = "down" /\ e.action = "held")

DispatchOther ==
    /\ pc = "dispatch" /\ events # << >> /\ Unhandled(Head(events))
    /\ events' = Tail(events)
    /\ Did("other", Head(events))
    /\ UNCHANGED << pc, recordingState, outputFD, currentFileName, stick,
                    arrived, low_light, display, cwd, finished,
                    shutdownInvoked, fault, returned, outdir, exitStatus >>

\* The loop over the events ends, line 186.
EndOfEvents ==
    /\ pc = "dispatch" /\ events = << >>
    /\ pc' = "tick"
    /\ Did("end", NoEvent)
    /\ UNCHANGED << recordingState, outputFD, currentFileName, events, stick,
                    arrived, low_light, display, cwd, finished,
                    shutdownInvoked, fault, returned, outdir, exitStatus >>

\* WaitForEvent with the 2 s of line 184 as its timeout, a timeout being
\* taken as an abort.
WaitForEventTimeout ==
    /\ pc = "confirm"
    /\ stick' = IF stick = << >> THEN stick ELSE Tail(stick)
    /\ \E closeOk \in BOOLEAN, renameOk \in BOOLEAN, displayOk \in BOOLEAN :
          LET u == IF stick = << >> THEN Ev("down", "pressed") ELSE Head(stick)
              o == FollowUp(Session, display, u, closeOk, renameOk, displayOk)
          IN  /\ Apply(o, IF o.break THEN "tick" ELSE "dispatch")
              /\ shutdownInvoked' = (shutdownInvoked \/ o.shutdown)
              /\ events' = IF o.break THEN << >> ELSE events
              /\ Step("follow_up", u, "none", o.failed)
    /\ UNCHANGED << arrived, low_light, returned, outdir >>

\* sense.stick.wait_for_event() returns the next queued event, line 229,
\* and lines 230-246 act on it.
WaitForEvent ==
    /\ pc = "confirm" /\ stick # << >>
    /\ stick' = Tail(stick)
    /\ \E closeOk \in BOOLEAN, renameOk \in BOOLEAN, displayOk \in BOOLEAN :
          LET o == FollowUp(Session, display, Head(stick), closeOk, renameOk,
                            displayOk)
          IN  /\ Apply(o, IF o.break THEN "tick" ELSE "dispatch")
              /\ shutdownInvoked' = (shutdownInvoked \/ o.shutdown)
              /\ events' = IF o.break THEN << >> ELSE events
              /\ Step("follow_up", Head(stick), "none", o.failed)
    /\ UNCHANGED << arrived, low_light, returned, outdir >>

\* Lines 252-255, then back to line 184.
Tick ==
    /\ pc = "tick"
    /\ \E i \in SampleInputs(recordingState) :
          Apply(Sample(Session, display, i.r, i.now, i.sensorOk, i.writeOk),
                "poll")
    /\ Did("sample", NoEvent)
    /\ UNCHANGED << events, stick, arrived, low_light, shutdownInvoked,
                    returned, outdir >>

\* The shutdown that line 240 asked for stops the process.
Halt ==
    /\ shutdownInvoked
    /\ pc \in {"poll", "dispatch", "confirm", "tick"}
    /\ pc' = "halted"
    /\ Did("halt", NoEvent)
    /\ UNCHANGED << recordingState, outputFD, currentFileName, events, stick,
                    arrived, low_light, display, cwd, finished,
                    shutdownInvoked, fault, returned, outdir, exitStatus >>

Next ==
    \/ Startup
    \/ Joystick
    \/ Poll
    \/ DispatchLeft
    \/ DispatchRight
    \/ DispatchMiddle
    \/ DispatchUp
    \/ DispatchDownHeld
    \/ DispatchOther
    \/ EndOfEvents
    \/ WaitForEvent
    \/ Tick
    \/ Halt

Spec == Init /\ [][Next]_vars

\* ------------------------------------- the functions, called on their own

InitCall ==
    /\ pc = "call"
    /\ recordingState = FALSE
    /\ outputFD = Unbound
    /\ currentFileName = Unbound
    /\ events = << >>
    /\ stick = << >>
    /\ arrived = 0
    /\ low_light = TRUE
    /\ display = "clear"
    /\ cwd = EmptyDir
    /\ finished = EmptyDir
    /\ shutdownInvoked = FALSE
    /\ fault = "none"
    /\ last = [op |-> "start", rec |-> FALSE, event |-> NoEvent, io |-> "none",
               failed |-> FALSE]
    /\ returned = [fn |-> "none"]
    /\ outdir = "directory"
    /\ exitStatus = 0

\* getSenseData() is called.
CallGetSenseData ==
    /\ pc = "call"
    /\ \E r \in [SensorCalls -> Readings], now \in Times, sensorOk \in BOOLEAN :
          returned' = [fn |-> "getSenseData", args |-> << r, now, sensorOk >>,
                       out |-> getSenseData(r, now, sensorOk)]
    /\ pc' = "returned"
    /\ UNCHANGED << recordingState, outputFD, currentFileName, events,
                    stick, arrived, low_light, display, cwd, finished,
                    shutdownInvoked, fault, last, outdir, exitStatus >>

\* fileSetup(name) is called.
CallFileSetup ==
    /\ pc = "call"
    /\ \E t \in Times, openOk \in BOOLEAN :
          LET f == fileSetup(cwd, FileName(GlobalValue("filenamePrefix"), t), openOk)
          IN  /\ cwd' = f.dir
              /\ returned' = [fn |-> "fileSetup", args |-> << t, openOk >>, out |-> f]
    /\ pc' = "returned"
    /\ UNCHANGED << recordingState, outputFD, currentFileName, events,
                    stick, arrived, low_light, display, finished,
                    shutdownInvoked, fault, last, outdir, exitStatus >>

NextCall == CallGetSenseData \/ CallFileSetup

SpecCall == InitCall /\ [][NextCall]_vars

\* -------------------------------------------------------------- claims

\* main() is in its loop.
Running == pc \in {"poll", "dispatch", "confirm", "tick"}

\* No session is ever active: recordingState is set only after line 191
\* has evaluated `prefix`.
NeverRecording == ~recordingState /\ cwd = EmptyDir /\ finished = EmptyDir

\* C1: a LEFT-pressed event dispatched while recordingState is false opens
\* exactly one session (one new file, a handle, the flag true); one
\* dispatched while it is true leaves the session as it is.  A failure of
\* open() itself is set aside.
C1_LeftOpensOneSession ==
    [][(DispatchLeft /\ fault' # "OSError") =>
          IF recordingState
          THEN Session' = Session
          ELSE /\ recordingState'
               /\ outputFD' # Unbound
               /\ currentFileName' \notin DOMAIN cwd
               /\ DOMAIN cwd' = (DOMAIN cwd) \cup {currentFileName'}
               /\ finished' = finished]_vars

\* C2: LEFT in Idle, N sampling ticks, RIGHT leave a file of one header row
\* and N data rows in outputDirectory and not in the working directory:
\* LEFT leaves the file with the header row alone, every tick while
\* recording adds exactly one row, RIGHT moves the file with its rows.
\* Steps on which the operating system fails a call are set aside.
C2_FullCycle ==
    [][fault' # "OSError" =>
          /\ (DispatchLeft /\ ~recordingState) =>
                /\ recordingState'
                /\ currentFileName' \in DOMAIN cwd'
                /\ cwd'[currentFileName'] = << HeaderRow >>
          /\ (Tick /\ recordingState) =>
                /\ recordingState'
                /\ cwd'[currentFileName] = Append(cwd[currentFileName],
                                                  cwd'[currentFileName][Len(cwd'[currentFileName])])
          /\ (DispatchRight /\ recordingState) =>
                /\ currentFileName \notin DOMAIN cwd'
                /\ currentFileName \in DOMAIN finished'
                /\ finished'[currentFileName] = cwd[currentFileName]]_vars

\* C3: the record getSenseData builds has as many values as fileSetup's
\* header has columns, the i-th value being the quantity the i-th column
\* names.
C3_RecordMatchesHeader ==
    (returned.fn = "getSenseData" /\ returned.args[3]) =>
        /\ returned.out.raised = "none"
        /\ Len(returned.out.value) = Len(header)
        /\ \A i \in 1 .. Len(header) : returned.out.value[i].quantity = header[i]

\* C5: a DOWN-pressed follow-up of DOWN held runs no shutdown and leaves
\* the recording flag, the handle, the file name and the files as they
\* were, with main() still in its loop.  (A step on which a display call
\* fails is C13's.)
C5_AbortRestores ==
    [][(WaitForEvent /\ Aborts(Head(stick)) /\ ~last'.failed) =>
          /\ shutdownInvoked' = shutdownInvoked
          /\ Session' = Session
          /\ fault' = fault
          /\ pc' = "tick"]_vars

\* C5 happens: DOWN held then DOWN pressed while idle.
C5_Witness ==
    /\ last.op = "follow_up" /\ Aborts(last.event) /\ ~last.failed
    /\ ~last.rec /\ ~recordingState /\ ~shutdownInvoked
    /\ cwd = EmptyDir
    /\ pc = "tick"

\* C6: a RIGHT-pressed event dispatched while recordingState is false
\* creates, closes and moves nothing, leaves the flag false, and the loop
\* over the events goes on.
C6_RightIdleNoOp ==
    [][(DispatchRight /\ ~recordingState) =>
          /\ Session' = Session
          /\ ~recordingState'
          /\ fault' = fault
          /\ pc' = "dispatch"]_vars

\* C6 happens.
C6_Witness ==
    /\ last.op = "right" /\ ~last.rec
    /\ ~recordingState /\ cwd = EmptyDir /\ finished = EmptyDir
    /\ pc = "dispatch"

\* C7: when MIDDLE is pressed and the lookup of wlan0's address fails, the
\* fallback message is shown, the recording flag and the session are as
\* they were and the loop over the events goes on.  (A step on which a
\* display call fails is C13's.)
C7_LookupFailureRecovered ==
    [][(DispatchMiddle /\ last'.io # "address" /\ ~last'.failed) =>
          /\ display' = "IP: none or error"
          /\ Session' = Session
          /\ fault' = fault
          /\ pc' = "dispatch"]_vars

\* C7 happens: a failed lookup, with main() back in its loop over the events.
C7_Witness ==
    /\ last.op = "middle" /\ last.io \in {"ENODEV", "EADDRNOTAVAIL"}
    /\ display = "IP: none or error"
    /\ fault = "none"
    /\ pc = "dispatch"

\* C8: when a LEFT press in Idle fails to open its session, the recording
\* flag stays false and main() stays in its loop.
C8_OpenFailureStaysIdle ==
    [][(DispatchLeft /\ ~recordingState /\ ~recordingState') =>
          Running']_vars

\* An event is dispatched: a branch of lines 187-250 or the follow-up of
\* lines 229-246 acts on it.
Dispatches ==
    \/ DispatchLeft
    \/ DispatchRight
    \/ DispatchMiddle
    \/ DispatchUp
    \/ DispatchDownHeld
    \/ DispatchOther
    \/ WaitForEvent

\* C11: whenever an exception has ended main(), the display has been
\* cleared.
C11_DisplayClearedOnExit ==
    pc = "done" => (fault # "none" /\ display = "clear")

\* C11 happens: the display showed the image of an UP press, then a LEFT
\* press raised.
C11_Witness ==
    /\ pc = "done" /\ fault = "NameError"
    /\ last.op = "left" /\ ~low_light
    /\ display = "clear"

\* C12: main() runs only with outputDirectory a directory, created when it
\* was absent; when it cannot be created or the path is not a directory the
\* process has ended before main() with a status that is not 0.
C12_LoopOnlyWithDirectory ==
    /\ pc \notin {"startup", "exited"} => outdir = "directory"
    /\ pc = "exited" => /\ exitStatus # 0
                        /\ ~last.failed => (outdir # "directory" /\ exitStatus = 255)
                        /\ ~recordingState /\ fault = "none" /\ arrived = 0

\* C12 happens: the directory was absent and main() is in its loop.
C12_Witness ==
    /\ last.op = "startup" /\ last.io = "absent"
    /\ outdir = "directory"
    /\ pc = "poll"

\* C13: a display call that fails while an event is dispatched does not end
\* main() and does not change the recording flag.
C13_DisplayFailureSwallowed ==
    [][(Dispatches /\ last'.failed) =>
          /\ Running'
          /\ fault' = fault
          /\ recordingState' = recordingState]_vars

\* C14: once os.system has run the shutdown, no event is dispatched, no
\* session is opened and no row is appended.  (A step on which a display
\* call fails is C13's.)
C14_TerminalAfterShutdown ==
    [][shutdownInvoked =>
          (~(Dispatches /\ ~last'.failed) /\ Session' = Session)]_vars

\* C15: the events of a poll window are dispatched in the order they
\* arrived and none is dropped: the follow-up event of a confirmation is
\* not acted on while events that arrived before it are waiting, and it
\* leaves the events of the window as they are.
C15_InOrderNoneDropped ==
    [][WaitForEvent => (events = << >> /\ events' = events)]_vars

C17_OtherFollowUpResumes ==
    [][WaitForEvent =>
          /\ stick' = Tail(stick)
          /\ (~Confirms(Head(stick)) /\ ~Aborts(Head(stick))) =>
                /\ shutdownInvoked' = shutdownInvoked
                /\ Session' = Session
                /\ fault' = fault
                /\ events' = events
                /\ pc' = "dispatch"]_vars

\* C17 happens.
C17_Witness ==
    /\ last.op = "follow_up"
    /\ ~Confirms(last.event) /\ ~Aborts(last.event)
    /\ ~shutdownInvoked /\ ~recordingState
    /\ pc = "dispatch"

\* C18: while main() waits for the follow-up event and none is queued, it
\* stays there: no event of the window is dispatched, nothing is sampled,
\* the session and the display stay as they are.  Only the follow-up
\* event takes main() out of the wait.
C18_BlocksUntilEvent ==
    [][pc = "confirm" =>
          IF stick = << >>
          THEN /\ pc' \in {"confirm", "halted"}
               /\ events' = events
               /\ Session' = Session
               /\ display' = display
               /\ fault' = fault
          ELSE pc' \in {"confirm", "halted"} \/ stick' = Tail(stick)]_vars

\* C18 happens: main() waits, events of the window are left, and no
\* further event will arrive.
C18_Witness ==
    /\ pc = "confirm" /\ stick = << >>
    /\ events # << >>
    /\ arrived = MaxEvents

\* C19: MIDDLE pressed, UP pressed, DOWN pressed, the released events and
\* the held events but DOWN held leave the recording flag, the handle, the
\* file name and the files as they are; UP pressed flips low_light, the
\* others leave it.  (A step on which a display call fails is C13's.)
C19_OtherEventsFrame ==
    [][((DispatchMiddle \/ DispatchUp \/ DispatchOther) /\ ~last'.failed) =>
          /\ Session' = Session
          /\ low_light' = IF DispatchUp THEN ~low_light ELSE low_light]_vars

\* C19 happens: a second UP press has flipped low_light back.
C19_Witness ==
    /\ last.op = "up" /\ ~last.failed
    /\ low_light
    /\ pc = "dispatch"

====
